---- MODULE Spec2Model ----
(***************************************************************************)
(* Model of EffectsProvider (src/react/components.tsx): the effect         *)
(* timeline scheduler of bgio-effects.                                     *)
(*                                                                         *)
(* The component is a function that React calls on every render.  What a   *)
(* render computes (boardProps, state, duration, bgioStateT) is captured   *)
(* by the closures of that render: the requestAnimationFrame callback      *)
(* (useRafLoop keeps the callback of the latest render) and the passive    *)
(* effect (useEffect).  The model therefore separates                      *)
(*   hookState   the value held by the useState hook (written by setState) *)
(*   state       that value as captured by the latest render               *)
(*   qState      the ref of useRefState, read and written directly         *)
(* and has one action per step React or the browser can take: a render     *)
(* caused by new props (Observe), a re-render caused by setState or        *)
(* rerender (Render), the passive effect of the latest render (RunEffect), *)
(* one animation frame (Tick) and the passing of time (Advance).  React    *)
(* flushes the passive effect of a render before it renders again; it      *)
(* gives no order between an animation frame and either a pending passive  *)
(* effect or a pending re-render.                                          *)
(*                                                                         *)
(* Times: performance.now() is in milliseconds, effect times are in        *)
(* seconds.  ElapsedT is the code's elapsedT multiplied by MsPerSec, and   *)
(* every comparison multiplies its other side by MsPerSec, so that no      *)
(* division is needed and the comparisons are exact.                       *)
(***************************************************************************)
EXTENDS Integers, Sequences, FiniteSets, TLC

\* ---- bounds of the model ------------------------------------------------
\* Milliseconds between two readings of the clock.
Frame == 500
\* Readings of the clock after the first one.
MaxFrames == 5
\* Number of host observations after the first one.
MaxObs == 2
\* First reading of performance.now(), at mount, and the last one.
MountNow == Frame
MaxNow == MountNow + MaxFrames * Frame

\* ---- program constants --------------------------------------------------
MsPerSec == 1000

NoId == "undefined"

\* ---- effects and batches the host can deliver ---------------------------
Eff(type, payload, t, endT) ==
    [type |-> type, payload |-> payload, t |-> t, endT |-> endT]

\* A batch as the effects plugin delivers it: data.id, data.queue, data.duration.
Batch1 == [id |-> "b1",
           queue |-> << Eff("dmg", "p11", 0, 1), Eff("heal", "p12", 1, 2) >>,
           duration |-> 2]
Batch2 == [id |-> "b2", queue |-> << Eff("dmg", "p21", 1, 1) >>, duration |-> 1]
Batch3 == [id |-> "b3",
           queue |-> << Eff("dmg", "p31", 2, 2), Eff("heal", "p32", 0, 1) >>,
           duration |-> 2]

Batches == {Batch1, Batch2, Batch3}
InitialBatches == {Batch2}
Speeds == {1, 2}

Payloads == {"p11", "p12", "p21", "p31", "p32"}

RECURSIVE SeqToSet(_)
SeqToSet(s) == IF s = << >> THEN {} ELSE {Head(s)} \cup SeqToSet(Tail(s))

PayloadsOf(queue) == {e.payload : e \in SeqToSet(queue)}

\* The precondition the scheduler relies on: sorted by t, 0 <= t <= endT <= duration.
Sorted(queue) ==
    \A i, j \in 1..Len(queue) : i < j => queue[i].t <= queue[j].t
WellFormed(b) ==
    /\ Sorted(b.queue)
    /\ \A i \in 1..Len(b.queue) :
          /\ 0 <= b.queue[i].t
          /\ b.queue[i].t <= b.queue[i].endT
          /\ b.queue[i].endT <= b.duration

VARIABLES
    now,                      \* performance.now()
    speed,                    \* opts.speed
    updateStateAfterEffects,  \* opts.updateStateAfterEffects
    fxEnabled,                \* whether the host has the effects plugin
    nObs,                     \* observations delivered so far
    boardProps,               \* props of the latest render
    state,                    \* useState value as captured by the latest render
    hookState,                \* useState value as written by the latest setState
    qState,                   \* qState.current
    rafActive,                \* rafActivity.current of useRafLoop
    loops,                    \* live frame loops of the tick driver
    effectPending,            \* the latest render's passive effect has not run
    stateDirty,               \* setState was called since the latest render
    renderPending,            \* a re-render is scheduled
    lastAct,                  \* the handler that ran last
    ops,                      \* what that handler did, in program order
    started,                  \* start notifications per payload, this installation
    ended,                    \* end notifications per payload, this installation
    flushed,                  \* end tallies of the replaced installation, after its flush
    installed,                \* the batch whose queue the latest swap installed
    installT,                 \* clock reading of the latest swap
    newSnap                   \* snapshot number of the observation that brought the
                              \* latest new batch id (0: none yet)

vars == << now, speed, updateStateAfterEffects, fxEnabled, nObs, boardProps, state,
           hookState, qState, rafActive, loops, effectPending, stateDirty,
           renderPending, lastAct, ops, started, ended, flushed, installed, installT, newSnap >>

\* ---- what a render derives from its props (lines 115-118) ---------------
\* boardProps.plugins.effects present with data b, or absent.
Props(snap, fx, b) ==
    [snap |-> snap, fx |-> fx,
     id |-> IF fx THEN b.id ELSE NoId,
     queue |-> IF fx THEN b.queue ELSE << >>,
     duration |-> IF fx THEN b.duration ELSE 0]

BgioStateT(props) == IF updateStateAfterEffects THEN props.duration ELSE 0

\* ---- notifications ------------------------------------------------------
Op(kind, type, payload, snap) ==
    [op |-> kind, type |-> type, payload |-> payload, snap |-> snap]
Mark(kind) == Op(kind, "", "", 0)

\* emit: the effect's type, its payload and the boardProps of the closure.
EmitGated(channel, effect, props) ==
    Op(channel, effect.type, effect.payload, state.bgioProps)
Emit(channel, effect, props) == Op(channel, effect.type, effect.payload, props.snap)

RECURSIVE EmitAllEffects(_, _, _)
EmitAllEffects(channel, effects, props) ==
    IF effects = << >> THEN << >>
    ELSE << Emit(channel, Head(effects), props) >>
             \o EmitAllEffects(channel, Tail(effects), props)


\* ---- the program state a handler reads and writes -----------------------
\* q: qState.current, hook: the useState value, raf: rafActivity.current,
\* dirty / rerender: what the handler asked React to do, ops: what it did.
Machine ==
    [q |-> qState, hook |-> hookState, raf |-> rafActive, loops |-> loops,
     dirty |-> stateDirty, rerender |-> renderPending, ops |-> << >>]

\* The closure of the latest render.
Closure == [state |-> state, props |-> boardProps]

\* setState of useState: replaces the value and schedules a render.
SetState(m, v) ==
    [m EXCEPT !.hook = v, !.dirty = TRUE, !.rerender = TRUE,
              !.ops = @ \o << Mark("setState") >>]

\* setState of useRefState (lines 51-57): writes the ref, then rerender().
SetQueueState(m, v) ==
    [m EXCEPT !.q = v, !.rerender = TRUE, !.ops = @ \o << Mark("setQueueState") >>]

\* The tick driver (start, stop, isRunning of useRafLoop).  start creates a
\* frame loop only when none is running; stop ends the running one and does
\* nothing otherwise.  The mark records whether the call acted.
StartRafAnother(m) ==
    [m EXCEPT !.raf = TRUE, !.loops = @ + 1,
              !.ops = @ \o << Op("startRaf", "started", "", 0) >>]
StartRaf(m) ==
    IF m.raf
    THEN [m EXCEPT !.ops = @ \o << Op("startRaf", "noop", "", 0) >>]
    ELSE [m EXCEPT !.raf = TRUE, !.loops = @ + 1,
                   !.ops = @ \o << Op("startRaf", "started", "", 0) >>]
StopRaf(m) ==
    IF m.raf
    THEN [m EXCEPT !.raf = FALSE, !.loops = 0,
                   !.ops = @ \o << Op("stopRaf", "stopped", "", 0) >>]
    ELSE [m EXCEPT !.ops = @ \o << Op("stopRaf", "noop", "", 0) >>]

Publish(m, events) == [m EXCEPT !.ops = @ \o events]

\* ---- the animation frame callback (lines 145-194) -----------------------
\* elapsedT * MsPerSec, from the start instant of the closure's state.
ElapsedT(st) == (now - st.startT) * speed

\* First loop: the active effects that stay, and those that end.
StillActive(activeQueue, elapsedT) ==
    SelectSeq(activeQueue, LAMBDA e : e.endT * MsPerSec > elapsedT)
JustEnded(activeQueue, elapsedT) ==
    SelectSeq(activeQueue, LAMBDA e : ~(e.endT * MsPerSec > elapsedT))

\* Second loop: the value of i when the loop is left (its break or its end).
ScanIndex(queue, elapsedT) ==
    LET late == {k \in 1..Len(queue) : queue[k].t * MsPerSec > elapsedT}
    IN  IF late = {} THEN Len(queue)
        ELSE (CHOOSE k \in late : \A j \in late : k <= j) - 1

\* The effects the second loop emits and pushes: queue[0] .. queue[i - 1].
JustStartedFromEnd(queue, i) == SubSeq(queue, Len(queue) - i + 1, Len(queue))
JustStarted(queue, i) == SubSeq(queue, 1, i)

\* Lines 169-176: expose the props once their time is reached.
GateReached(c, elapsedT) == elapsedT >= BgioStateT(c.props) * MsPerSec
GateStateRestart(c) == [c.state EXCEPT !.bgioProps = c.props.snap, !.startT = now]
GateState(c) == [c.state EXCEPT !.bgioProps = c.props.snap]
GateUpdate(m, c, elapsedT) ==
    IF GateReached(c, elapsedT) /\ c.props.snap # c.state.bgioProps
    THEN SetState(m, GateState(c))
    ELSE m

\* Line 178.
PastDurationGate(c, elapsedT) == elapsedT > BgioStateT(c.props) * MsPerSec
PastDurationOrAt(c, elapsedT) == elapsedT >= c.props.duration * MsPerSec
PastDuration(c, elapsedT) == elapsedT > c.props.duration * MsPerSec
StopWhenOver(m, c, elapsedT) ==
    IF PastDuration(c, elapsedT) THEN StopRaf(m) ELSE m

\* Lines 180-193: the queue state the tick writes.
UpdateQueueNoSlice(q, i, anyEnded, newActiveQueue) ==
    [queue |-> q.queue, activeQueue |-> newActiveQueue]
UpdateQueueKeepActive(q, i, anyEnded, newActiveQueue) ==
    [queue |-> IF i > 0 THEN SubSeq(q.queue, i + 1, Len(q.queue)) ELSE q.queue,
     activeQueue |-> IF i > 0 THEN newActiveQueue ELSE q.activeQueue]
UpdateQueue(q, i, anyEnded, newActiveQueue) ==
    [queue |-> IF i > 0 THEN SubSeq(q.queue, i + 1, Len(q.queue)) ELSE q.queue,
     activeQueue |-> newActiveQueue]
QueueUpdate(m, i, anyEnded, newActiveQueue) ==
    IF i > 0 \/ anyEnded
    THEN SetQueueState(m, UpdateQueue(m.q, i, anyEnded, newActiveQueue))
    ELSE m

\* The same callback with the start scan before the end scan.
RafCallbackStartsFirst(m, c) ==
    LET elapsedT == ElapsedT(c.state)
        endedQ == JustEnded(m.q.activeQueue, elapsedT)
        i == ScanIndex(m.q.queue, elapsedT)
        startedQ == JustStarted(m.q.queue, i)
        newActiveQueue == StillActive(m.q.activeQueue, elapsedT) \o startedQ
        m1 == Publish(m, EmitAllEffects("start", startedQ, c.props))
        m2 == Publish(m1, EmitAllEffects("end", endedQ, c.props))
        m3 == GateUpdate(m2, c, elapsedT)
        m4 == StopWhenOver(m3, c, elapsedT)
    IN  QueueUpdate(m4, i, endedQ # << >>, newActiveQueue)

\* The same callback with the end scan run over the started effects too.
RafCallbackEndsStarted(m, c) ==
    LET elapsedT == ElapsedT(c.state)
        i == ScanIndex(m.q.queue, elapsedT)
        startedQ == JustStarted(m.q.queue, i)
        scanned == m.q.activeQueue \o startedQ
        endedQ == JustEnded(scanned, elapsedT)
        newActiveQueue == StillActive(scanned, elapsedT)
        m1 == Publish(m, EmitAllEffects("start", startedQ, c.props))
        m2 == Publish(m1, EmitAllEffects("end", endedQ, c.props))
        m3 == GateUpdate(m2, c, elapsedT)
        m4 == StopWhenOver(m3, c, elapsedT)
    IN  QueueUpdate(m4, i, endedQ # << >>, newActiveQueue)

RafCallback(m, c) ==
    LET elapsedT == ElapsedT(c.state)
        endedQ == JustEnded(m.q.activeQueue, elapsedT)
        i == ScanIndex(m.q.queue, elapsedT)
        startedQ == JustStarted(m.q.queue, i)
        newActiveQueue == StillActive(m.q.activeQueue, elapsedT) \o startedQ
        m1 == Publish(m, EmitAllEffects("end", endedQ, c.props))
        m2 == Publish(m1, EmitAllEffects("start", startedQ, c.props))
        m3 == GateUpdate(m2, c, elapsedT)
        m4 == StopWhenOver(m3, c, elapsedT)
    IN  QueueUpdate(m4, i, endedQ # << >>, newActiveQueue)

\* ---- the passive effect (lines 199-245) ---------------------------------
\* Line 204.
IsNonEffect(c) == ~c.props.fx \/ c.props.id = c.state.prevId

\* Lines 207-215.
MayExposeIdle(m) == ~m.raf
MayExpose(m) == ~updateStateAfterEffects \/ ~m.raf
NonEffectBranch(m, c) ==
    IF MayExpose(m) /\ c.props.snap # c.state.bgioProps
    THEN SetState(m, [c.state EXCEPT !.bgioProps = c.props.snap])
    ELSE m

\* Line 221.
Flush(m, c) == Publish(m, EmitAllEffects("end", m.q.activeQueue, c.props))
\* Lines 223-226.
\* The queue sorted ascending by t.
RECURSIVE SortByT(_)
SortByT(q) ==
    IF q = << >> THEN << >>
    ELSE LET k == CHOOSE k \in 1..Len(q) : \A j \in 1..Len(q) : q[k].t <= q[j].t
         IN  << q[k] >> \o SortByT(SubSeq(q, 1, k - 1) \o SubSeq(q, k + 1, Len(q)))
InstalledQueueSorted(q, c) == [queue |-> SortByT(c.props.queue), activeQueue |-> << >>]
InstalledQueueKeepActive(q, c) == [queue |-> c.props.queue, activeQueue |-> q.activeQueue]
InstalledQueue(q, c) == [queue |-> c.props.queue, activeQueue |-> << >>]
Install(m, c) == SetQueueState(m, InstalledQueue(m.q, c))
\* Lines 200, 219, 228, 231.
SwapState(c) ==
    [prevId |-> c.props.id, startT |-> now, bgioProps |-> c.state.bgioProps]

\* Lines 219-233, in program order.
SwapBranchInstallFirst(m, c) ==
    StartRaf(SetState(Flush(Install(m, c), c), SwapState(c)))
SwapBranch(m, c) == StartRaf(SetState(Install(Flush(m, c), c), SwapState(c)))

EffectHandlerNoReturn(m, c) ==
    IF IsNonEffect(c) THEN SwapBranch(NonEffectBranch(m, c), c) ELSE SwapBranch(m, c)
EffectHandler(m, c) ==
    IF IsNonEffect(c) THEN NonEffectBranch(m, c) ELSE SwapBranch(m, c)

\* ---- bookkeeping of the notifications (not program state) ---------------
NoneInstalled == [id |-> NoId, queue |-> << >>, duration |-> 0]
Zero == [p \in Payloads |-> 0]

RECURSIVE Count(_, _, _)
Count(s, kind, payload) ==
    IF s = << >> THEN 0
    ELSE (IF Head(s).op = kind /\ Head(s).payload = payload THEN 1 ELSE 0)
            + Count(Tail(s), kind, payload)

Tally(counts, s, kind) == [p \in Payloads |-> counts[p] + Count(s, kind, p)]

\* ---- initial state: after the first render (lines 115-133) --------------
\* Lines 122-126.
InitialStateNoId(props) == [prevId |-> NoId, startT |-> 0, bgioProps |-> props.snap]
InitialState(props) == [prevId |-> props.id, startT |-> 0, bgioProps |-> props.snap]

Init ==
    /\ now = MountNow
    /\ speed \in Speeds
    /\ updateStateAfterEffects \in BOOLEAN
    /\ fxEnabled \in BOOLEAN
    /\ nObs = 0
    /\ \E b \in InitialBatches : boardProps = Props(0, fxEnabled, b)
    /\ state = InitialState(boardProps)
    /\ hookState = state
    /\ qState = [queue |-> << >>, activeQueue |-> << >>]
    /\ rafActive = FALSE
    /\ loops = 0
    /\ effectPending = TRUE
    /\ stateDirty = FALSE
    /\ renderPending = FALSE
    /\ lastAct = "mount"
    /\ ops = << >>
    /\ started = Zero
    /\ ended = Zero
    /\ flushed = Zero
    /\ installed = NoneInstalled
    /\ installT = 0
    /\ newSnap = 0

\* ---- actions ------------------------------------------------------------
Config == << speed, updateStateAfterEffects, fxEnabled >>

\* Time passes.
Advance ==
    /\ now + Frame <= MaxNow
    /\ now' = now + Frame
    /\ lastAct' = "advance"
    /\ ops' = << >>
    /\ UNCHANGED << Config, nObs, boardProps, state, hookState, qState, rafActive,
                    loops, effectPending, stateDirty, renderPending, started, ended,
                    flushed, installed, installT, newSnap >>

\* The host delivers new props: the component renders with them and with the
\* current useState value; its passive effect becomes pending (boardProps is
\* one of its dependencies).
Observe ==
    /\ nObs < MaxObs
    /\ ~effectPending
    /\ \E b \in Batches :
          /\ boardProps' = Props(nObs + 1, fxEnabled, b)
          /\ newSnap' = IF boardProps'.fx /\ boardProps'.id # hookState.prevId
                           /\ boardProps'.id # boardProps.id
                        THEN nObs + 1 ELSE newSnap
    /\ nObs' = nObs + 1
    /\ state' = hookState
    /\ effectPending' = TRUE
    /\ stateDirty' = FALSE
    /\ renderPending' = FALSE
    /\ lastAct' = "observe"
    /\ ops' = << >>
    /\ UNCHANGED << Config, now, hookState, qState, rafActive, loops, started, ended,
                    flushed, installed, installT >>

\* A scheduled re-render with unchanged props.  The passive effect runs again
\* only when one of its dependencies changed, which here can only be state.
Render ==
    /\ renderPending
    /\ ~effectPending
    /\ state' = hookState
    /\ effectPending' = stateDirty
    /\ stateDirty' = FALSE
    /\ renderPending' = FALSE
    /\ lastAct' = "render"
    /\ ops' = << >>
    /\ UNCHANGED << Config, now, nObs, boardProps, hookState, qState, rafActive,
                    loops, started, ended, flushed, installed, installT, newSnap >>

\* One animation frame while the loop is active.
Tick ==
    /\ rafActive
    /\ LET m == RafCallback(Machine, Closure)
       IN  /\ qState' = m.q
           /\ hookState' = m.hook
           /\ rafActive' = m.raf
           /\ loops' = m.loops
           /\ stateDirty' = m.dirty
           /\ renderPending' = m.rerender
           /\ ops' = m.ops
           /\ started' = Tally(started, m.ops, "start")
           /\ ended' = Tally(ended, m.ops, "end")
    /\ lastAct' = "tick"
    /\ UNCHANGED << Config, now, nObs, boardProps, state, effectPending, flushed,
                    installed, installT, newSnap >>

\* The passive effect of the latest render.
RunEffect ==
    /\ effectPending
    /\ effectPending' = FALSE
    /\ LET m == EffectHandler(Machine, Closure)
       IN  /\ qState' = m.q
           /\ hookState' = m.hook
           /\ rafActive' = m.raf
           /\ loops' = m.loops
           /\ stateDirty' = m.dirty
           /\ renderPending' = m.rerender
           /\ ops' = m.ops
           /\ IF IsNonEffect(Closure)
              THEN /\ lastAct' = "update"
                   /\ UNCHANGED << started, ended, flushed, installed, installT >>
              ELSE /\ lastAct' = "swap"
                   /\ flushed' = Tally(ended, m.ops, "end")
                   /\ started' = Zero
                   /\ ended' = Zero
                   /\ installed' = [id |-> boardProps.id, queue |-> boardProps.queue,
                                    duration |-> boardProps.duration]
                   /\ installT' = now
    /\ UNCHANGED << Config, now, nObs, boardProps, state, newSnap >>

Next == Advance \/ Observe \/ Render \/ Tick \/ RunEffect

Spec == Init /\ [][Next]_vars

\* The scheduling the browser and React guarantee: while the loop is active a
\* frame is eventually delivered, time passes, and a scheduled render or
\* passive effect eventually runs.
FairSpec ==
    /\ Spec
    /\ WF_vars(Tick)
    /\ WF_vars(Advance)
    /\ WF_vars(Render)
    /\ WF_vars(RunEffect)

\* ---- properties ---------------------------------------------------------
\* The latest props carry a batch id that the swap handler has yet to load.
SwapDue == boardProps.fx /\ boardProps.id # hookState.prevId

HasInstalled == installed # NoneInstalled

\* The installed batch meets the precondition and the clock of the model has
\* room to pass its duration.
Playable ==
    /\ HasInstalled
    /\ WellFormed(installed)
    /\ (MaxNow - installT) * speed > installed.duration * MsPerSec

AllStarted == \A p \in PayloadsOf(installed.queue) : started[p] >= 1

\* C1: coverage of starts.  A well-formed batch installed by a swap, with
\* ticks that keep occurring and no further swap, eventually has every
\* effect of its queue started: pending becomes empty.
C1_StartsEventually ==
    Playable ~> ((qState.queue = << >> /\ AllStarted) \/ ~Playable)

\* C1, as a property of the state in which the driver has stopped: no effect
\* of a well-formed installed batch is left pending, unless a swap is due.
C1_StartsCovered ==
    (HasInstalled /\ WellFormed(installed) /\ ~rafActive /\ ~SwapDue)
        => (qState.queue = << >> /\ AllStarted)

C1_Witness ==
    /\ installed = [id |-> Batch1.id, queue |-> Batch1.queue, duration |-> Batch1.duration]
    /\ lastAct = "tick"
    /\ ~rafActive
    /\ ~SwapDue
    /\ qState.queue = << >>
    /\ started["p11"] = 1 /\ started["p12"] = 1

AllEnded == \A p \in PayloadsOf(installed.queue) : started[p] >= 1 => ended[p] >= 1

\* The latest render has seen the start instant of the latest swap, so the
\* ticks compute elapsed from the installation of the batch they advance.
ClosureCurrent == state.startT = installT /\ state.prevId = installed.id

\* C2: coverage of ends.  Once the driver of a well-formed installed batch
\* has stopped itself (its ticks measuring elapsed from the installation) and
\* no swap is due, every effect that was started has received its end
\* notification and none is left in active.
C2_EndsCovered ==
    (HasInstalled /\ WellFormed(installed) /\ ClosureCurrent /\ ~rafActive /\ ~SwapDue)
        => (qState.activeQueue = << >> /\ AllEnded)

\* C3: no double-fire.  No effect receives more than one start or more than
\* one end notification for one installation of its batch, the flush of the
\* replaced installation included.
C3_NoDoubleFire ==
    \A p \in Payloads : started[p] <= 1 /\ ended[p] <= 1 /\ flushed[p] <= 1

\* Two ticks ran on the queue state of a swap that no render has seen yet.
C3_Witness ==
    /\ installed.id = "b1"
    /\ state.startT # installT
    /\ stateDirty
    /\ started["p11"] = 1 /\ ended["p11"] = 1 /\ started["p12"] = 1
    /\ lastAct = "tick"

\* C4: start ordering.  In an installed batch sorted by t, an effect with a
\* larger t has no start notification while one with a smaller t has none.
C4_StartOrder ==
    (HasInstalled /\ Sorted(installed.queue)) =>
        \A i, j \in 1..Len(installed.queue) :
            (installed.queue[i].t < installed.queue[j].t
                /\ started[installed.queue[j].payload] >= 1)
            => started[installed.queue[i].payload] >= 1

C4_Witness ==
    /\ installed.id = "b1"
    /\ started["p11"] = 1 /\ started["p12"] = 0
    /\ qState.queue = << Batch1.queue[2] >>
    /\ lastAct = "tick"

IsEvent(o) == o.op \in {"start", "end"}
Events(s) == SelectSeq(s, IsEvent)

\* C5: flush on batch swap.  The swap handler first publishes one end
\* notification per effect of the old active list, with the effect's type
\* and payload and the newly received snapshot, and only then replaces the
\* queue state, resets the start instant and starts the driver.
C5_FlushFirst ==
    [][lastAct' = "swap" =>
        LET old == qState.activeQueue
            n == Len(old)
        IN  /\ Len(ops') = n + 3
            /\ \A k \in 1..n :
                  ops'[k] = [op |-> "end", type |-> old[k].type,
                             payload |-> old[k].payload, snap |-> nObs]
            /\ ops'[n + 1].op = "setQueueState"
            /\ ops'[n + 2].op = "setState"
            /\ ops'[n + 3].op = "startRaf"
            /\ qState' = [queue |-> boardProps.queue, activeQueue |-> << >>]
            /\ hookState'.startT = now
            /\ rafActive'
    ]_vars

C5_Witness ==
    /\ lastAct = "swap"
    /\ Len(ops) = 5
    /\ ops[1].op = "end" /\ ops[2].op = "end"
    /\ ops[1].payload # ops[2].payload
    /\ qState.activeQueue = << >>

\* C6: cancellation by swap.  Every notification a tick publishes is for an
\* effect of the batch installed last, and what the tick leaves in pending
\* and active belongs to that batch: nothing of a replaced batch is started
\* or ended after its swap.
C6_OnlyInstalled ==
    [][lastAct' = "tick" =>
        /\ \A k \in 1..Len(ops') :
              IsEvent(ops'[k]) => ops'[k].payload \in PayloadsOf(installed.queue)
        /\ SeqToSet(qState'.queue) \cup SeqToSet(qState'.activeQueue)
              \subseteq SeqToSet(installed.queue)
    ]_vars

\* b1 was replaced while p11 was active and p12 pending; a tick then started b2.
C6_Witness ==
    /\ lastAct = "tick"
    /\ installed.id = "b2"
    /\ flushed["p11"] = 1 /\ flushed["p12"] = 0
    /\ started["p21"] = 1
    /\ Events(ops) # << >>

\* The observation the passive effect handles is not a new batch.
NotNewBatch == ~boardProps.fx \/ boardProps.id = hookState.prevId
EffectStep == lastAct' \in {"update", "swap"}

\* C7: an observation without effects or with the loaded batch id leaves
\* pending, active, the start instant, the loaded id and the driver as they
\* are and publishes nothing.
C7_TimelineNoOp ==
    [][(EffectStep /\ NotNewBatch) =>
        /\ qState' = qState
        /\ hookState'.startT = hookState.startT
        /\ hookState'.prevId = hookState.prevId
        /\ rafActive' = rafActive
        /\ Events(ops') = << >>
        /\ started' = started /\ ended' = ended
    ]_vars

C7_Witness ==
    /\ lastAct = "update"
    /\ rafActive
    /\ qState.queue # << >>
    /\ qState.activeQueue # << >>
    /\ nObs >= 2
    /\ ops # << >>

\* The snapshot the presentation layer is given, now or at the next render.
Exposed(n) == state.bgioProps = n \/ hookState.bgioProps = n

\* The timeline of the installed batch has not reached its duration.
Playing == (now - installT) * speed < installed.duration * MsPerSec

C9_ImmediateExposure ==
    [][(EffectStep /\ NotNewBatch /\ (~updateStateAfterEffects \/ ~rafActive)) =>
        /\ boardProps.snap = nObs
        /\ hookState'.bgioProps = nObs
    ]_vars

\* A same-id observation during playback, exposed by the handler itself.
C9_Witness ==
    /\ lastAct = "update"
    /\ ops = << Mark("setState") >>
    /\ rafActive
    /\ ~updateStateAfterEffects
    /\ nObs = 2
    /\ hookState.bgioProps = 2
    /\ state.bgioProps = 1

\* The gate condition a tick computes: elapsedT >= bgioStateT.
GateOpen == GateReached(Closure, ElapsedT(state))

\* C10: gate monotonicity.  The gate closes only when an observation brings
\* another batch id or when the start instant reset by the latest swap
\* reaches the ticks; otherwise, once open, it stays open.
C10_GateMonotone ==
    [][(GateOpen /\ ~GateOpen') =>
        \/ boardProps'.id # boardProps.id
        \/ (state'.startT = installT /\ state.startT # installT)
    ]_vars

\* Deferred mode, the gate of the installed batch open at its duration.
C10_Witness ==
    /\ updateStateAfterEffects
    /\ HasInstalled /\ installed.duration > 0
    /\ ClosureCurrent
    /\ GateOpen
    /\ lastAct = "tick"
    /\ rafActive
    /\ hookState.bgioProps = nObs /\ state.bgioProps < nObs

TickElapsed == (now - state.startT) * speed

\* Length of the longest prefix of q whose effects all have t <= elapsed.
DuePrefix(q, el) ==
    Cardinality({k \in 1..Len(q) : \A j \in 1..k : q[j].t * MsPerSec <= el})

\* C12: driver stop rule.  A tick stops the driver exactly when its elapsed
\* time is strictly greater than the duration; the stopping tick, like any
\* other, publishes its ends and starts and updates the gate, and pending
\* and active are what its advance produced, not cleared.
C12_StopRule ==
    [][lastAct' = "tick" =>
        LET el == TickElapsed
            n == DuePrefix(qState.queue, el)
            stay == SelectSeq(qState.activeQueue, LAMBDA e : e.endT * MsPerSec > el)
            gone == Len(qState.activeQueue) - Len(stay)
        IN  /\ rafActive' = ~(el > boardProps.duration * MsPerSec)
            /\ qState'.queue = SubSeq(qState.queue, n + 1, Len(qState.queue))
            /\ qState'.activeQueue = stay \o SubSeq(qState.queue, 1, n)
            /\ Len(Events(ops')) = gone + n
            /\ (el >= BgioStateT(boardProps) * MsPerSec)
                  => hookState'.bgioProps = boardProps.snap
    ]_vars

\* A tick with elapsed equal to the duration left the driver running.
C12_Witness ==
    /\ lastAct = "tick"
    /\ rafActive
    /\ HasInstalled /\ ClosureCurrent
    /\ boardProps.duration > 0
    /\ TickElapsed = boardProps.duration * MsPerSec
    /\ Events(ops) # << >>

\* The type the host gave the effect with this payload.
TypeOf(payload) ==
    LET e == CHOOSE e \in UNION {SeqToSet(b.queue) : b \in Batches \cup InitialBatches} :
                 e.payload = payload
    IN  e.type

\* C13: envelope snapshot.  Every start and end notification, of a tick or
\* of a flush, carries the effect's type and payload and the latest host
\* snapshot received, not the snapshot exposed to the presentation layer.
C13_EnvelopeSnapshot ==
    \A k \in 1..Len(ops) :
        IsEvent(ops[k]) =>
            /\ ops[k].snap = nObs
            /\ ops[k].payload \in Payloads
            /\ ops[k].type = TypeOf(ops[k].payload)

\* Deferred mode, during playback: the published snapshot is not the exposed one.
C13_Witness ==
    /\ updateStateAfterEffects
    /\ lastAct = "tick"
    /\ rafActive
    /\ \E k \in 1..Len(ops) :
          /\ ops[k].op = "start"
          /\ ops[k].snap = nObs
          /\ ops[k].snap # state.bgioProps
          /\ ops[k].snap # hookState.bgioProps

\* C14: timeline reset once per batch.  A swap sets the start instant to the
\* current time and the loaded id to the new id; a tick and a handler of an
\* observation that is no new batch change neither; and a tick computes
\* elapsed from the instant of the swap that installed the queue it advances.
C14_ResetOncePerSwap ==
    [][/\ lastAct' = "swap" =>
              (hookState'.startT = now /\ hookState'.prevId = boardProps.id)
       /\ lastAct' \in {"tick", "update"} =>
              /\ hookState'.startT = hookState.startT
              /\ hookState'.prevId = hookState.prevId
       /\ (lastAct' = "tick" /\ HasInstalled) => state.startT = installT
    ]_vars

\* C15: ends before starts within a tick.  In what a tick publishes, no
\* start notification comes before an end notification.
C15_EndsBeforeStarts ==
    lastAct = "tick" =>
        \A j, k \in 1..Len(ops) :
            (ops[j].op = "start" /\ ops[k].op = "end") => k < j

\* One tick ended p11 and started p12.
C15_Witness ==
    /\ lastAct = "tick"
    /\ Count(ops, "end", "p11") = 1
    /\ Count(ops, "start", "p12") = 1

\* C16: start strictly precedes end.  No tick publishes the start and the
\* end of the same effect; a tick ends only effects started before it; and a
\* flush ends only effects that had been started.
C16_StartBeforeEnd ==
    [][\A p \in Payloads :
        /\ lastAct' = "tick" =>
              /\ ~(Count(ops', "start", p) > 0 /\ Count(ops', "end", p) > 0)
              /\ Count(ops', "end", p) > 0 => started[p] >= 1
        /\ lastAct' = "swap" =>
              (Count(ops', "end", p) > 0 => started[p] >= 1)
    ]_vars

\* The zero-duration effect p21 was started by one tick and ended by a later one.
C16_Witness ==
    /\ lastAct = "tick"
    /\ installed.id = "b2"
    /\ Count(ops, "end", "p21") = 1
    /\ Count(ops, "start", "p21") = 0
    /\ started["p21"] = 1 /\ ended["p21"] = 1

\* q is a suffix of the sequence full.
IsSuffix(q, full) ==
    /\ Len(q) <= Len(full)
    /\ q = SubSeq(full, Len(full) - Len(q) + 1, Len(full))

\* C17: queue partition.  Pending and active share no effect; pending is a
\* suffix of the installed queue; active holds exactly the installed effects
\* that have a start and no end; an ended effect is in neither list.
C17_Partition ==
    LET pend == SeqToSet(qState.queue)
        act == SeqToSet(qState.activeQueue)
    IN  /\ pend \cap act = {}
        /\ IsSuffix(qState.queue, installed.queue)
        /\ Len(qState.activeQueue) = Cardinality(act)
        /\ act = {e \in SeqToSet(installed.queue) :
                     started[e.payload] >= 1 /\ ended[e.payload] = 0}
        /\ \A e \in pend \cup act : ended[e.payload] = 0

\* p11 has ended, p12 is active, nothing is pending.
C17_Witness ==
    /\ installed.id = "b1"
    /\ ended["p11"] = 1
    /\ qState.activeQueue = << Batch1.queue[2] >>
    /\ qState.queue = << >>

\* The installed effect that has this payload.
InstalledEffect(payload) ==
    CHOOSE e \in SeqToSet(installed.queue) : e.payload = payload

\* Elapsed time on the timeline of the installed batch, times MsPerSec.
InstalledElapsed == (now - installT) * speed

\* C18: no early firing.  A tick publishes a start only for an effect with
\* t <= elapsed and an end only for one with endT <= elapsed, elapsed being
\* measured from the installation of the effect's batch and scaled by speed.
C18_NoEarlyFiring ==
    [][lastAct' = "tick" =>
        \A k \in 1..Len(ops') :
            /\ ops'[k].op = "start" =>
                  InstalledEffect(ops'[k].payload).t * MsPerSec <= InstalledElapsed
            /\ ops'[k].op = "end" =>
                  InstalledEffect(ops'[k].payload).endT * MsPerSec <= InstalledElapsed
    ]_vars

\* C19: unsorted batches are accepted and start in list order.  A swap
\* installs the queue as delivered; in every installed batch, sorted or not,
\* no effect has a start while an effect listed before it has none.
C19_ListOrder ==
    /\ lastAct = "swap" =>
          (qState.queue = boardProps.queue /\ installed.queue = boardProps.queue)
    /\ \A i, j \in 1..Len(installed.queue) :
          (i < j /\ started[installed.queue[j].payload] >= 1)
              => started[installed.queue[i].payload] >= 1

\* In the unsorted batch b3 a tick left p32 (t = 0) pending at elapsed >= 1,
\* behind p31 (t = 2).
C19_Witness ==
    /\ installed.id = "b3"
    /\ ~Sorted(installed.queue)
    /\ lastAct = "tick"
    /\ ClosureCurrent
    /\ InstalledElapsed >= MsPerSec
    /\ qState.queue = Batch3.queue
    /\ started["p32"] = 0

\* C20: the batch present at construction is never played.  As long as no
\* observation has carried another id than the first, nothing is installed,
\* nothing is published, the driver is idle and pending and active are empty.
C20_InitialBatchIdle ==
    newSnap = 0 =>
        /\ hookState.prevId = boardProps.id
        /\ installed = NoneInstalled
        /\ ~rafActive /\ loops = 0
        /\ qState = [queue |-> << >>, activeQueue |-> << >>]
        /\ started = Zero /\ ended = Zero
        /\ lastAct # "swap"
        /\ Events(ops) = << >>

\* Two observations with the id of the first were handled; its effect p21
\* was never queued.
C20_Witness ==
    /\ fxEnabled
    /\ nObs = 2
    /\ newSnap = 0
    /\ boardProps.id = "b2" /\ boardProps.queue # << >>
    /\ lastAct = "update"
    /\ hookState.bgioProps = 2
    /\ now > MountNow

====
